---------------------------- MODULE Spec2Model ----------------------------
(***************************************************************************)
(* Model of the TkinterUI form toolkit (src/forms.py): the typed form      *)
(* elements (one Tk variable each, a text cell, plus a typed accessor) and *)
(* the Form container that aggregates and submits their values.            *)
(*                                                                         *)
(* A Python str is a sequence of one-character strings, so that joining,   *)
(* splitting, formatting and parsing are computed and not assumed.  A      *)
(* Python value is a record tagged with its type.  A call's result is an   *)
(* outcome: the exception it raised (or "None") and what it returned.      *)
(***************************************************************************)
EXTENDS Integers, Sequences, FiniteSets, TLC

VARIABLES
    el,        \* Spec: the form element under test
    pre,       \* Spec: the element as it was before the last call
    last,      \* Spec: the last call [op, arg, exc, ret]
    pending,   \* Spec: the value of the set() that immediately precedes, if any
    elements,  \* SpecForm: Form._elements
    flast      \* SpecForm: the last call on the Form [op, exc, ret]

vars == <<el, pre, last, pending, elements, flast>>

-----------------------------------------------------------------------------
(* Bounds of the model *)

\* longest choices list an element is driven to
MaxChoices == 3
\* most elements a Form is given
MaxElements == 3
\* most change observers one storage cell is driven to
MaxTraces == 4

-----------------------------------------------------------------------------
(* Python values *)

PyNone == [t |-> "None", v |-> <<>>]
PyStr(s) == [t |-> "str", v |-> s]
PyInt(i) == [t |-> "int", v |-> i]
\* a float is counted in tenths: PyFloat(15) is 1.5
PyFloat(x) == [t |-> "float", v |-> x]
PyBool(b) == [t |-> "bool", v |-> b]
PyList(l) == [t |-> "list", v |-> l]
\* a dict is its items in insertion order, keys distinct
PyDict(d) == [t |-> "dict", v |-> d]
\* a set is its members in the order its display writes them
PySet(m) == [t |-> "set", v |-> m]

Range(s) == {s[i] : i \in 1..Len(s)}

DictKeys(d) == {d[i][1] : i \in 1..Len(d)}

DictGet(d, k) == d[CHOOSE i \in 1..Len(d) : d[i][1] = k][2]

\* Python ==, within one type: dicts compare as mappings, the rest by value
PyEq(a, b) ==
    /\ a.t = b.t
    /\ IF a.t = "dict"
       THEN /\ DictKeys(a.v) = DictKeys(b.v)
            /\ \A k \in DictKeys(a.v) : DictGet(a.v, k) = DictGet(b.v, k)
       ELSE a.v = b.v

\* as DictSet, but a key that is already there keeps its value
DictSet_KeepsFirst(d, k, v) ==
    IF k \in DictKeys(d) THEN d ELSE Append(d, <<k, v>>)

\* dict[k] = v: a new key goes last, an old key keeps its place
DictSet(d, k, v) ==
    IF k \in DictKeys(d)
    THEN [i \in 1..Len(d) |-> IF d[i][1] = k THEN <<k, v>> ELSE d[i]]
    ELSE Append(d, <<k, v>>)

Ok(r) == [exc |-> "None", ret |-> r]
Raise(e) == [exc |-> e, ret |-> PyNone]

-----------------------------------------------------------------------------
(* Text: conversions between Python values and a Tk variable's text *)

DigitChars == <<"0", "1", "2", "3", "4", "5", "6", "7", "8", "9">>

DigitVal(c) == (CHOOSE i \in 1..10 : DigitChars[i] = c) - 1

RECURSIVE Digits(_)
Digits(n) ==
    IF n < 10 THEN <<DigitChars[n + 1]>>
    ELSE Digits(n \div 10) \o <<DigitChars[(n % 10) + 1]>>

IsDigits(s) == Len(s) > 0 /\ \A i \in 1..Len(s) : s[i] \in Range(DigitChars)

RECURSIVE DigitsVal(_)
DigitsVal(s) ==
    IF Len(s) = 0 THEN 0
    ELSE 10 * DigitsVal(SubSeq(s, 1, Len(s) - 1)) + DigitVal(s[Len(s)])

Unsigned(s) == IF Len(s) > 0 /\ s[1] = "-" THEN Tail(s) ELSE s

Sign(s) == IF Len(s) > 0 /\ s[1] = "-" THEN -1 ELSE 1

IntText(i) == IF i < 0 THEN <<"-">> \o Digits(-i) ELSE Digits(i)

IsIntText(s) == IsDigits(Unsigned(s))

IntVal(s) == Sign(s) * DigitsVal(Unsigned(s))

FloatText(x) ==
    IF x < 0 THEN <<"-">> \o Digits((-x) \div 10) \o <<".">> \o Digits((-x) % 10)
    ELSE Digits(x \div 10) \o <<".">> \o Digits(x % 10)

\* digits "." digit, the only fractional texts the model writes
IsFracText(s) ==
    LET u == Unsigned(s)
    IN /\ Len(u) >= 3
       /\ u[Len(u) - 1] = "."
       /\ u[Len(u)] \in Range(DigitChars)
       /\ IsDigits(SubSeq(u, 1, Len(u) - 2))

FracVal(s) ==
    LET u == Unsigned(s)
    IN Sign(s) * (10 * DigitsVal(SubSeq(u, 1, Len(u) - 2)) + DigitVal(u[Len(u)]))

IsDoubleText(s) == IsIntText(s) \/ IsFracText(s)

\* tenths
DoubleVal(s) == IF IsIntText(s) THEN 10 * IntVal(s) ELSE FracVal(s)

\* int(x): truncation toward zero
Trunc(x) == IF x < 0 THEN -((-x) \div 10) ELSE x \div 10

RECURSIVE Join(_, _)
\* sep.join(parts)
Join(parts, sep) ==
    IF Len(parts) = 0 THEN <<>>
    ELSE IF Len(parts) = 1 THEN parts[1]
    ELSE parts[1] \o sep \o Join(Tail(parts), sep)

RECURSIVE SplitFrom(_, _, _)
SplitFrom(s, c, cur) ==
    IF Len(s) = 0 THEN <<cur>>
    ELSE IF s[1] = c THEN <<cur>> \o SplitFrom(Tail(s), c, <<>>)
    ELSE SplitFrom(Tail(s), c, Append(cur, s[1]))

\* s.split(c): always at least one part
Split(s, c) == SplitFrom(s, c, <<>>)

-----------------------------------------------------------------------------
(* str() of a value and ast.literal_eval of a text *)

RECURSIVE Repr(_)
RECURSIVE ReprItems(_)
RECURSIVE ReprPairs(_)

\* repr(v); a list or a dict display is written with ", " between items
Repr(v) ==
    CASE v.t = "None" -> <<"N", "o", "n", "e">>
      [] v.t = "str" -> <<"'">> \o v.v \o <<"'">>
      [] v.t = "int" -> IntText(v.v)
      [] v.t = "float" -> FloatText(v.v)
      [] v.t = "bool" -> IF v.v THEN <<"T", "r", "u", "e">>
                         ELSE <<"F", "a", "l", "s", "e">>
      [] v.t = "list" -> <<"[">> \o ReprItems(v.v) \o <<"]">>
      [] v.t = "dict" -> <<"{">> \o ReprPairs(v.v) \o <<"}">>
      [] v.t = "set" -> <<"{">> \o ReprItems(v.v) \o <<"}">>

ReprItems(l) ==
    IF Len(l) = 0 THEN <<>>
    ELSE IF Len(l) = 1 THEN Repr(l[1])
    ELSE Repr(l[1]) \o <<",", " ">> \o ReprItems(Tail(l))

ReprPairs(d) ==
    IF Len(d) = 0 THEN <<>>
    ELSE LET one == Repr(d[1][1]) \o <<":", " ">> \o Repr(d[1][2])
         IN IF Len(d) = 1 THEN one
            ELSE one \o <<",", " ">> \o ReprPairs(Tail(d))

\* the literal expressions the model can write down: scalars, lists, a set, and
\* dict displays of up to two items whose keys may be lists (unhashable)
LiteralKeys == {PyStr(<<"a">>), PyStr(<<"b">>), PyList(<<PyInt(1)>>)}

LiteralVals == {PyInt(1), PyStr(<<"a">>)}

LiteralDisplays ==
    {PyDict(<<>>)}
        \cup {PyDict(<<<<k, v>>>>) : k \in LiteralKeys, v \in LiteralVals}
        \cup {PyDict(<<<<k[1], v[1]>>, <<k[2], v[2]>>>>) :
                k \in {p \in LiteralKeys \X LiteralKeys : p[1] # p[2]},
                v \in LiteralVals \X LiteralVals}

Literals ==
    {PyInt(0), PyInt(1), PyStr(<<"a">>), PyList(<<>>), PyList(<<PyInt(1)>>), PyNone,
     PySet(<<PyInt(1)>>)}
        \cup LiteralDisplays

\* a display evaluates unless one of its keys is unhashable (a list)
Hashable(term) ==
    term.t # "dict" \/ \A i \in 1..Len(term.v) : term.v[i][1].t # "list"

IsIdentifier(s) ==
    Len(s) > 0 /\ \A i \in 1..Len(s) : s[i] \in {"a", "b", "c", "x"}

\* ast.literal_eval(s): the value a literal text denotes; TypeError for a display
\* with an unhashable key; ValueError for a name, SyntaxError for anything else
literal_eval(s) ==
    IF \E term \in Literals : Repr(term) = s
    THEN LET term == CHOOSE x \in Literals : Repr(x) = s
         IN IF Hashable(term) THEN Ok(term) ELSE Raise("TypeError")
    ELSE IF IsIdentifier(s) THEN Raise("ValueError")
    ELSE Raise("SyntaxError")

-----------------------------------------------------------------------------
(* Tk variables: the cell holds text, the variable's class gives it a type *)

StringVar_get(s) == Ok(PyStr(s))

\* getint, and on failure int(getdouble)
IntVar_get(s) ==
    IF IsIntText(s) THEN Ok(PyInt(IntVal(s)))
    ELSE IF IsDoubleText(s) THEN Ok(PyInt(Trunc(DoubleVal(s))))
    ELSE Raise("TclError")

DoubleVar_get(s) ==
    IF IsDoubleText(s) THEN Ok(PyFloat(DoubleVal(s))) ELSE Raise("TclError")

BooleanTrue == {<<"1">>, <<"t", "r", "u", "e">>, <<"y", "e", "s">>, <<"o", "n">>}

BooleanFalse == {<<"0">>, <<"f", "a", "l", "s", "e">>, <<"n", "o">>, <<"o", "f", "f">>}

\* getboolean; BooleanVar turns Tcl's error into ValueError
BooleanVar_get(s) ==
    IF s \in BooleanTrue THEN Ok(PyBool(TRUE))
    ELSE IF s \in BooleanFalse THEN Ok(PyBool(FALSE))
    ELSE Raise("ValueError")

Var_get(vtype, s) ==
    CASE vtype = "StringVar" -> StringVar_get(s)
      [] vtype = "IntVar" -> IntVar_get(s)
      [] vtype = "DoubleVar" -> DoubleVar_get(s)
      [] vtype = "BooleanVar" -> BooleanVar_get(s)

\* the text Tcl holds for a Python value handed to Variable.set
TkText(v) ==
    CASE v.t = "str" -> v.v
      [] v.t = "int" -> IntText(v.v)
      [] v.t = "float" -> FloatText(v.v)
      [] v.t = "bool" -> IF v.v THEN <<"1">> ELSE <<"0">>
      [] OTHER -> Repr(v)

White == <<"#", "F", "F", "F", "F", "F", "F">>

HexChars == Range(DigitChars) \cup {"A", "B", "C", "D", "E", "F"}

\* a colour Tk accepts as a widget background
IsColor(s) ==
    Len(s) = 7 /\ s[1] = "#" /\ \A i \in 2..7 : s[i] \in HexChars

-----------------------------------------------------------------------------
(* Form elements *)

\* FormElement.__init__: the name; _var stays the class attribute None
NewElement(cls, name) ==
    [cls |-> cls, name |-> name,
     hasVar |-> FALSE, vtype |-> "StringVar", var |-> <<>>,
     hasChoices |-> FALSE, choices |-> <<>>,
     widgets |-> <<>>, items |-> <<>>,
     hasListbox |-> FALSE, sel |-> {},
     traces |-> 0, swatch |-> <<>>]

\* self._var = tk.<vtype>(value=...)
WithVar(e, vtype, s) == [e EXCEPT !.hasVar = TRUE, !.vtype = vtype, !.var = s]

Done(e) == [el |-> e, exc |-> "None"]
Fail(e, x) == [el |-> e, exc |-> x]

\* self._var.set(s): the write runs the variable's observers, which repaint the
\* swatch (an observer's own failure is reported, not raised)
VarWrite(e, s) ==
    [e EXCEPT !.var = s,
              !.swatch = IF e.traces > 0 /\ IsColor(s) THEN s ELSE @]

\* the regen_widgets every element with one plain control shares: drop the
\* children, refuse a missing variable, then build the control (and the button)
EntryRegen(e, kids) ==
    IF ~e.hasVar THEN Fail([e EXCEPT !.widgets = <<>>], "AttributeError")
    ELSE Done([e EXCEPT !.widgets = kids])

ColorForm_regen_widgets(e) == EntryRegen(e, <<"Entry", "Button">>)

ChoiceForm_regen_widgets(e) ==
    IF ~e.hasVar THEN Fail([e EXCEPT !.widgets = <<>>, !.items = <<>>], "AttributeError")
    ELSE IF Len(e.choices) = 0 THEN Done([e EXCEPT !.widgets = <<>>, !.items = <<>>])
    ELSE Done([e EXCEPT !.widgets = <<"OptionMenu">>, !.items = e.choices])

RadioForm_regen_widgets(e) ==
    IF ~e.hasVar THEN Fail([e EXCEPT !.widgets = <<>>, !.items = <<>>], "AttributeError")
    ELSE Done([e EXCEPT !.widgets = [i \in 1..Len(e.choices) |-> "Radiobutton"],
                        !.items = e.choices])

\* a new Listbox holds the choices and no selection
MultiChoiceForm_regen_widgets(e) ==
    IF ~e.hasChoices THEN Done([e EXCEPT !.widgets = <<>>])
    ELSE Done([e EXCEPT !.widgets = <<"Listbox">>, !.hasListbox = TRUE,
                        !.items = e.choices, !.sel = {}])

\* ColorForm's rendering, then the swatch Label and one more write observer; the
\* Label refuses a background that is no colour
ColorPickerForm_regen_widgets(e) ==
    LET o == ColorForm_regen_widgets(e)
    IN IF o.exc # "None" THEN o
       ELSE IF ~IsColor(o.el.var) THEN Fail(o.el, "TclError")
       ELSE Done([o.el EXCEPT !.widgets = Append(@, "Label"),
                              !.swatch = o.el.var,
                              !.traces = @ + 1])

regen_widgets(e) ==
    CASE e.cls \in {"StringForm", "IntForm", "FloatForm", "ListForm", "DictForm"} ->
            EntryRegen(e, <<"Entry">>)
      [] e.cls = "BoolForm" -> EntryRegen(e, <<"Checkbutton">>)
      [] e.cls = "ChoiceForm" -> ChoiceForm_regen_widgets(e)
      [] e.cls = "MultiChoiceForm" -> MultiChoiceForm_regen_widgets(e)
      [] e.cls \in {"FileForm", "DirectoryForm", "PathForm"} ->
            EntryRegen(e, <<"Entry", "Button">>)
      [] e.cls = "RadioForm" -> RadioForm_regen_widgets(e)
      [] e.cls = "ColorForm" -> ColorForm_regen_widgets(e)
      [] e.cls = "ColorPickerForm" -> ColorPickerForm_regen_widgets(e)
      [] OTHER -> Fail(e, "NotImplementedError")

-----------------------------------------------------------------------------
(* Constructors: default is a Python value, PyNone when not given *)

StringForm_init(name, default) ==
    regen_widgets(WithVar(NewElement("StringForm", name), "StringVar",
                          IF default # PyNone THEN default.v ELSE <<>>))

IntForm_init(name, default) ==
    regen_widgets(WithVar(NewElement("IntForm", name), "IntVar",
                          TkText(IF default # PyNone THEN default ELSE PyInt(0))))

FloatForm_init(name, default) ==
    regen_widgets(WithVar(NewElement("FloatForm", name), "DoubleVar",
                          TkText(IF default # PyNone THEN default ELSE PyFloat(0))))

BoolForm_init(name, default) ==
    regen_widgets(WithVar(NewElement("BoolForm", name), "BooleanVar",
                          TkText(IF default # PyNone THEN default ELSE PyBool(FALSE))))

\* map(str, l) over a list of str
Strs(l) == [i \in 1..Len(l) |-> l[i].v]

ListForm_init(name, default) ==
    regen_widgets(WithVar(NewElement("ListForm", name), "StringVar",
                          IF default # PyNone THEN Join(Strs(default.v), <<",">>)
                          ELSE <<>>))

DictForm_init(name, default) ==
    regen_widgets(WithVar(NewElement("DictForm", name), "StringVar",
                          IF default # PyNone THEN Repr(default) ELSE <<"{", "}">>))

\* value in choices, for a list of str
InChoices(v, choices) == v.t = "str" /\ v.v \in Range(choices)

ChoiceForm_init(name, choices, default) ==
    IF Len(choices) = 0 THEN Fail(NewElement("ChoiceForm", name), "ValueError")
    ELSE regen_widgets(
            [WithVar(NewElement("ChoiceForm", name), "StringVar",
                     IF InChoices(default, choices) THEN default.v ELSE choices[1])
             EXCEPT !.hasChoices = TRUE, !.choices = choices])

MultiChoiceForm_init(name, choices, default) ==
    regen_widgets(
        [WithVar(NewElement("MultiChoiceForm", name), "StringVar",
                 IF default # PyNone THEN Join(Strs(default.v), <<",">>) ELSE <<>>)
         EXCEPT !.hasChoices = TRUE, !.choices = choices])

FileForm_init(name, default) ==
    regen_widgets(WithVar(NewElement("FileForm", name), "StringVar",
                          IF default # PyNone THEN default.v ELSE <<>>))

DirectoryForm_init(name, default) ==
    regen_widgets(WithVar(NewElement("DirectoryForm", name), "StringVar",
                          IF default # PyNone THEN default.v ELSE <<>>))

PathForm_init(name, default) ==
    regen_widgets(WithVar(NewElement("PathForm", name), "StringVar",
                          IF default # PyNone THEN default.v ELSE <<>>))

RadioForm_init(name, choices, default) ==
    IF Len(choices) = 0 THEN Fail(NewElement("RadioForm", name), "ValueError")
    ELSE regen_widgets(
            [WithVar(NewElement("RadioForm", name), "StringVar",
                     IF InChoices(default, choices) THEN default.v ELSE choices[1])
             EXCEPT !.hasChoices = TRUE, !.choices = choices])

ColorForm_init(name, default) ==
    regen_widgets(WithVar(NewElement("ColorForm", name), "StringVar",
                          IF default # PyNone THEN default.v ELSE White))

\* ColorForm.__init__ renders once (as a ColorPickerForm), then renders again
ColorPickerForm_init(name, default) ==
    LET o == regen_widgets(WithVar(NewElement("ColorPickerForm", name), "StringVar",
                                   IF default # PyNone THEN default.v ELSE White))
    IN IF o.exc = "None" THEN regen_widgets(o.el) ELSE o

-----------------------------------------------------------------------------
(* value: the getters *)

FormElement_value_get(e) ==
    IF ~e.hasVar THEN Raise("AttributeError") ELSE Var_get(e.vtype, e.var)

\* as ListForm_value_get, without the test for an empty text
ListForm_value_get_AlwaysSplit(e) ==
    IF ~e.hasVar THEN Raise("AttributeError")
    ELSE LET parts == Split(e.var, ",")
         IN Ok(PyList([i \in 1..Len(parts) |-> PyStr(parts[i])]))

ListForm_value_get(e) ==
    IF ~e.hasVar THEN Raise("AttributeError")
    ELSE IF Len(e.var) > 0
         THEN LET parts == Split(e.var, ",")
              IN Ok(PyList([i \in 1..Len(parts) |-> PyStr(parts[i])]))
         ELSE Ok(PyList(<<>>))

\* of literal_eval's failures only ValueError and SyntaxError become {}
DictForm_value_get(e) ==
    IF ~e.hasVar THEN Raise("AttributeError")
    ELSE LET o == literal_eval(e.var)
         IN IF o.exc \in {"ValueError", "SyntaxError"} THEN Ok(PyDict(<<>>)) ELSE o

ChoiceForm_value_get(e) ==
    IF ~e.hasVar THEN Raise("AttributeError") ELSE Ok(PyStr(e.var))

RECURSIVE SelectedFrom(_, _, _)
\* [listbox.get(i) for i in listbox.curselection()]: the selected rows, in row order
SelectedFrom(items, sel, i) ==
    IF i > Len(items) THEN <<>>
    ELSE (IF i \in sel THEN <<PyStr(items[i])>> ELSE <<>>)
            \o SelectedFrom(items, sel, i + 1)

MultiChoiceForm_value_get(e) ==
    IF ~e.hasListbox THEN Ok(PyList(<<>>))
    ELSE Ok(PyList(SelectedFrom(e.items, e.sel, 1)))

FileForm_value_get(e) ==
    IF ~e.hasVar THEN Raise("AttributeError") ELSE Ok(PyStr(e.var))

PathForm_value_get(e) ==
    IF ~e.hasVar THEN Raise("AttributeError") ELSE Ok(PyStr(e.var))

RadioForm_value_get(e) ==
    IF ~e.hasVar THEN Raise("AttributeError") ELSE Ok(PyStr(e.var))

ColorForm_value_get(e) ==
    IF ~e.hasVar THEN Raise("AttributeError") ELSE Ok(PyStr(e.var))

\* element.value, by the element's class
value_get(e) ==
    CASE e.cls = "ListForm" -> ListForm_value_get(e)
      [] e.cls = "DictForm" -> DictForm_value_get(e)
      [] e.cls = "ChoiceForm" -> ChoiceForm_value_get(e)
      [] e.cls = "MultiChoiceForm" -> MultiChoiceForm_value_get(e)
      [] e.cls \in {"FileForm", "DirectoryForm"} -> FileForm_value_get(e)
      [] e.cls = "PathForm" -> PathForm_value_get(e)
      [] e.cls = "RadioForm" -> RadioForm_value_get(e)
      [] e.cls \in {"ColorForm", "ColorPickerForm"} -> ColorForm_value_get(e)
      [] OTHER -> FormElement_value_get(e)

-----------------------------------------------------------------------------
(* value: the setters *)

FormElement_value_set(e, new_value) ==
    IF ~e.hasVar THEN Fail(e, "AttributeError")
    ELSE Done(VarWrite(e, TkText(new_value)))

ListForm_value_set(e, new_value) ==
    IF ~e.hasVar THEN Fail(e, "AttributeError")
    ELSE IF new_value # PyNone
         THEN Done(VarWrite(e, Join(Strs(new_value.v), <<",">>)))
         ELSE Done(VarWrite(e, <<>>))

DictForm_value_set(e, new_value) ==
    IF ~e.hasVar THEN Fail(e, "AttributeError")
    ELSE IF new_value # PyNone THEN Done(VarWrite(e, Repr(new_value)))
         ELSE Done(VarWrite(e, <<"{", "}">>))

ChoiceForm_value_set(e, new_value) ==
    IF ~e.hasVar THEN Fail(e, "AttributeError")
    ELSE IF InChoices(new_value, e.choices) THEN Done(VarWrite(e, new_value.v))
    ELSE IF new_value = PyNone /\ Len(e.choices) > 0
         THEN Done(VarWrite(e, e.choices[1]))
    ELSE Fail(e, "ValueError")

\* choices.index(c): the first place c stands at
IndexOf(choices, c) == CHOOSE i \in 1..Len(choices) :
    choices[i] = c /\ \A j \in 1..(i - 1) : choices[j] # c

MultiChoiceForm_on_select(e) ==
    IF ~e.hasVar THEN Fail(e, "AttributeError")
    ELSE Done(VarWrite(e, Join(Strs(MultiChoiceForm_value_get(e).ret.v), <<",">>)))

\* as MultiChoiceForm_value_set, without select_clear
MultiChoiceForm_value_set_NoClear(e, new_value) ==
    IF ~e.hasListbox THEN Done(e)
    ELSE LET wanted ==
                 IF new_value = PyNone THEN {}
                 ELSE {IndexOf(e.choices, c) :
                          c \in {x \in Range(Strs(new_value.v)) : x \in Range(e.choices)}}
         IN MultiChoiceForm_on_select(
                [e EXCEPT !.sel = (@ \cup wanted) \cap (1..Len(e.items))])

\* clear the selection, select the row of every known choice, then _on_select;
\* the Listbox ignores a row it does not have
MultiChoiceForm_value_set(e, new_value) ==
    IF ~e.hasListbox THEN Done(e)
    ELSE LET wanted ==
                 IF new_value = PyNone THEN {}
                 ELSE {IndexOf(e.choices, c) :
                          c \in {x \in Range(Strs(new_value.v)) : x \in Range(e.choices)}}
         IN MultiChoiceForm_on_select(
                [e EXCEPT !.sel = wanted \cap (1..Len(e.items))])

FileForm_value_set(e, new_value) ==
    IF ~e.hasVar THEN Fail(e, "AttributeError")
    ELSE regen_widgets(VarWrite(e, IF new_value # PyNone THEN new_value.v ELSE <<>>))

PathForm_value_set(e, new_value) ==
    IF ~e.hasVar THEN Fail(e, "AttributeError")
    ELSE regen_widgets(VarWrite(e, IF new_value # PyNone THEN new_value.v ELSE <<>>))

\* as RadioForm_value_set, without the membership test
RadioForm_value_set_Unchecked(e, new_value) ==
    IF ~e.hasVar THEN Fail(e, "AttributeError")
    ELSE IF new_value.t = "str" THEN Done(VarWrite(e, new_value.v))
    ELSE IF new_value = PyNone /\ Len(e.choices) > 0
         THEN Done(VarWrite(e, e.choices[1]))
    ELSE Fail(e, "ValueError")

RadioForm_value_set(e, new_value) ==
    IF ~e.hasVar THEN Fail(e, "AttributeError")
    ELSE IF InChoices(new_value, e.choices) THEN Done(VarWrite(e, new_value.v))
    ELSE IF new_value = PyNone /\ Len(e.choices) > 0
         THEN Done(VarWrite(e, e.choices[1]))
    ELSE Fail(e, "ValueError")

\* as ColorForm_value_set, without the default for None
ColorForm_value_set_NoDefault(e, new_value) ==
    IF ~e.hasVar THEN Fail(e, "AttributeError")
    ELSE regen_widgets(VarWrite(e, TkText(new_value)))

ColorForm_value_set(e, new_value) ==
    IF ~e.hasVar THEN Fail(e, "AttributeError")
    ELSE regen_widgets(VarWrite(e, IF new_value # PyNone THEN new_value.v ELSE White))

\* element.value = new_value, by the element's class
value_set(e, new_value) ==
    CASE e.cls = "ListForm" -> ListForm_value_set(e, new_value)
      [] e.cls = "DictForm" -> DictForm_value_set(e, new_value)
      [] e.cls = "ChoiceForm" -> ChoiceForm_value_set(e, new_value)
      [] e.cls = "MultiChoiceForm" -> MultiChoiceForm_value_set(e, new_value)
      [] e.cls \in {"FileForm", "DirectoryForm"} -> FileForm_value_set(e, new_value)
      [] e.cls = "PathForm" -> PathForm_value_set(e, new_value)
      [] e.cls = "RadioForm" -> RadioForm_value_set(e, new_value)
      [] e.cls \in {"ColorForm", "ColorPickerForm"} -> ColorForm_value_set(e, new_value)
      [] OTHER -> FormElement_value_set(e, new_value)

-----------------------------------------------------------------------------
(* Choice and Radio: the choices *)

\* list.remove(x): without the first x
RemoveFirst(l, x) ==
    LET i == IndexOf(l, x)
    IN SubSeq(l, 1, i - 1) \o SubSeq(l, i + 1, Len(l))

ChoiceForm_add_choice(e, choice) ==
    IF ~e.hasVar THEN Fail(e, "AttributeError")
    ELSE IF choice \notin Range(e.choices)
         THEN regen_widgets([e EXCEPT !.choices = Append(@, choice)])
    ELSE Fail(e, "ValueError")

\* as ChoiceForm_remove_choice, without the repair of the selection
ChoiceForm_remove_choice_KeepsValue(e, choice) ==
    IF ~e.hasVar THEN Fail(e, "AttributeError")
    ELSE IF choice \in Range(e.choices)
         THEN regen_widgets([e EXCEPT !.choices = RemoveFirst(e.choices, choice)])
    ELSE Fail(e, "ValueError")

ChoiceForm_remove_choice(e, choice) ==
    IF ~e.hasVar THEN Fail(e, "AttributeError")
    ELSE IF choice \in Range(e.choices)
         THEN LET rest == RemoveFirst(e.choices, choice)
                  e1 == [e EXCEPT !.choices = rest]
              IN regen_widgets(
                    IF Len(rest) > 0 /\ e.var = choice THEN VarWrite(e1, rest[1])
                    ELSE IF Len(rest) = 0 THEN VarWrite(e1, <<>>)
                    ELSE e1)
    ELSE Fail(e, "ValueError")

ChoiceForm_clear_choices(e) ==
    IF ~e.hasVar THEN Fail(e, "AttributeError")
    ELSE regen_widgets(VarWrite([e EXCEPT !.choices = <<>>], <<>>))

RadioForm_add_choice(e, choice) ==
    IF ~e.hasVar THEN Fail(e, "AttributeError")
    ELSE IF choice \notin Range(e.choices)
         THEN regen_widgets([e EXCEPT !.choices = Append(@, choice)])
    ELSE Fail(e, "ValueError")

RadioForm_remove_choice(e, choice) ==
    IF ~e.hasVar THEN Fail(e, "AttributeError")
    ELSE IF choice \in Range(e.choices)
         THEN LET rest == RemoveFirst(e.choices, choice)
                  e1 == [e EXCEPT !.choices = rest]
              IN regen_widgets(
                    IF Len(rest) > 0 /\ e.var = choice THEN VarWrite(e1, rest[1])
                    ELSE IF Len(rest) = 0 THEN VarWrite(e1, <<>>)
                    ELSE e1)
    ELSE Fail(e, "ValueError")

RadioForm_clear_choices(e) ==
    IF ~e.hasVar THEN Fail(e, "AttributeError")
    ELSE regen_widgets(VarWrite([e EXCEPT !.choices = <<>>], <<>>))

add_choice(e, choice) ==
    IF e.cls = "ChoiceForm" THEN ChoiceForm_add_choice(e, choice)
    ELSE RadioForm_add_choice(e, choice)

remove_choice(e, choice) ==
    IF e.cls = "ChoiceForm" THEN ChoiceForm_remove_choice(e, choice)
    ELSE RadioForm_remove_choice(e, choice)

clear_choices(e) ==
    IF e.cls = "ChoiceForm" THEN ChoiceForm_clear_choices(e)
    ELSE RadioForm_clear_choices(e)

-----------------------------------------------------------------------------
(* File, Directory, Path and Color: the dialogs and clear *)

\* askopenfilename() / askdirectory(): the chosen path, or "" when cancelled
FileForm_browse_file(e, file_path) ==
    IF Len(file_path) > 0 /\ e.hasVar THEN Done(VarWrite(e, file_path)) ELSE Done(e)

PathForm_browse_file(e, file_path) ==
    IF Len(file_path) > 0 /\ e.hasVar THEN Done(VarWrite(e, file_path)) ELSE Done(e)

FileForm_clear(e) ==
    regen_widgets(IF e.hasVar THEN VarWrite(e, <<>>) ELSE e)

\* askcolor()[1]: the chosen colour, or nothing when cancelled
ColorForm_select_color(e, color) ==
    IF ~e.hasVar THEN Done(e)
    ELSE IF Len(color) > 0 THEN Done(VarWrite(e, color)) ELSE Done(e)

-----------------------------------------------------------------------------
(* One element driven through its interface and its rendered control *)

NoPending == [set |-> FALSE, v |-> PyNone]

\* what one call on the Form did: what it raised (and the failure that chains to),
\* what it returned, the connections it created and closed, whether it ran the
\* target as code and in which context, whether it logged
FormCall(op, mode, target, o) ==
    [op |-> op, mode |-> mode, target |-> target,
     exc |-> o.exc, cause |-> o.cause, ret |-> o.ret,
     created |-> o.created, closed |-> o.closed, verb |-> o.verb,
     execd |-> o.execd, context |-> o.context, logged |-> o.logged]

\* an outcome of submit that touched nothing outside the Form
Quiet(exc, ret) ==
    [exc |-> exc, cause |-> "None", ret |-> ret, created |-> 0, closed |-> 0,
     verb |-> "None", execd |-> FALSE, context |-> PyNone, logged |-> FALSE]

NoCall == FormCall("init", "None", PyNone, Quiet("None", PyNone))

Call(op, arg, exc, ret) == [op |-> op, arg |-> arg, exc |-> exc, ret |-> ret]

Black == <<"#", "0", "0", "0", "0", "0", "0">>

ChoiceTexts == {<<>>, <<"a">>, <<"b">>}

InitChoices == {<<<<"a">>>>, <<<<"a">>, <<"b">>>>, <<<<"b">>, <<"a">>>>,
                <<<<"a">>, <<"a">>>>}

ListTexts == {<<>>, <<"a">>, <<"b">>, <<"a", ",", "b">>}

ListValues ==
    {PyList(<<>>)} \cup {PyList(<<PyStr(x)>>) : x \in ListTexts}
        \cup {PyList(<<PyStr(x), PyStr(y)>>) : x, y \in ListTexts}

DictValues == {d \in LiteralDisplays : Hashable(d)}

SelectionTexts == {<<"a">>, <<"b">>, <<"z">>}

SelectionValues ==
    {PyList(<<>>)} \cup {PyList(<<PyStr(x)>>) : x \in SelectionTexts}
        \cup {PyList(<<PyStr(x), PyStr(y)>>) : x, y \in SelectionTexts}

PathTexts == {<<>>, <<"/", "a">>}

ChoiceClasses == {"ChoiceForm", "RadioForm"}

EntryClasses ==
    {"StringForm", "IntForm", "FloatForm", "ListForm", "DictForm", "FileForm",
     "DirectoryForm", "PathForm", "ColorForm", "ColorPickerForm"}

BrowseClasses == {"FileForm", "DirectoryForm", "PathForm"}

ColorClasses == {"ColorForm", "ColorPickerForm"}

\* the constructor calls a program makes: the class, the choices and the default
\* (PyNone when not given); every element is named x
Constructions ==
    {[cls |-> "StringForm", choices |-> <<>>, default |-> d] :
        d \in {PyNone, PyStr(<<"a">>)}}
        \cup {[cls |-> "IntForm", choices |-> <<>>, default |-> d] :
                d \in {PyNone, PyInt(5)}}
        \cup {[cls |-> "FloatForm", choices |-> <<>>, default |-> d] :
                d \in {PyNone, PyFloat(15)}}
        \cup {[cls |-> "BoolForm", choices |-> <<>>, default |-> d] :
                d \in {PyNone, PyBool(TRUE)}}
        \cup {[cls |-> "ListForm", choices |-> <<>>, default |-> d] :
                d \in {PyNone, PyList(<<PyStr(<<"a">>), PyStr(<<"b">>)>>)}}
        \cup {[cls |-> "DictForm", choices |-> <<>>, default |-> d] :
                d \in {PyNone, PyDict(<<<<PyStr(<<"a">>), PyInt(1)>>>>)}}
        \cup {[cls |-> k, choices |-> c, default |-> d] :
                k \in ChoiceClasses, c \in InitChoices \cup {<<>>},
                d \in {PyNone, PyStr(<<"b">>), PyStr(<<"z">>)}}
        \cup {[cls |-> "MultiChoiceForm", choices |-> c, default |-> d] :
                c \in InitChoices \cup {<<>>},
                d \in {PyNone, PyList(<<PyStr(<<"a">>)>>)}}
        \cup {[cls |-> k, choices |-> <<>>, default |-> d] :
                k \in BrowseClasses, d \in {PyNone, PyStr(<<"/", "a">>)}}
        \cup {[cls |-> k, choices |-> <<>>, default |-> d] :
                k \in ColorClasses, d \in {PyNone, PyStr(Black)}}

\* <cls>(master, "x", [choices,] default)
Construct(c) ==
    CASE c.cls = "StringForm" -> StringForm_init(<<"x">>, c.default)
      [] c.cls = "IntForm" -> IntForm_init(<<"x">>, c.default)
      [] c.cls = "FloatForm" -> FloatForm_init(<<"x">>, c.default)
      [] c.cls = "BoolForm" -> BoolForm_init(<<"x">>, c.default)
      [] c.cls = "ListForm" -> ListForm_init(<<"x">>, c.default)
      [] c.cls = "DictForm" -> DictForm_init(<<"x">>, c.default)
      [] c.cls = "ChoiceForm" -> ChoiceForm_init(<<"x">>, c.choices, c.default)
      [] c.cls = "MultiChoiceForm" ->
            MultiChoiceForm_init(<<"x">>, c.choices, c.default)
      [] c.cls = "FileForm" -> FileForm_init(<<"x">>, c.default)
      [] c.cls = "DirectoryForm" -> DirectoryForm_init(<<"x">>, c.default)
      [] c.cls = "PathForm" -> PathForm_init(<<"x">>, c.default)
      [] c.cls = "RadioForm" -> RadioForm_init(<<"x">>, c.choices, c.default)
      [] c.cls = "ColorForm" -> ColorForm_init(<<"x">>, c.default)
      [] c.cls = "ColorPickerForm" -> ColorPickerForm_init(<<"x">>, c.default)

\* the elements a program constructs
Constructed == {Construct(c) : c \in Constructions}

\* a constructor that raises leaves no element behind
InitialElements == {o.el : o \in {c \in Constructed : c.exc = "None"}}

\* what a caller hands the setter of each class
SetArgs(cls) ==
    CASE cls = "StringForm" ->
            {PyStr(<<>>), PyStr(<<"a">>), PyStr(<<"a", ",", "b">>)}
      [] cls = "IntForm" -> {PyInt(0), PyInt(5), PyInt(-12)}
      [] cls = "FloatForm" -> {PyFloat(0), PyFloat(15), PyFloat(-5)}
      [] cls = "BoolForm" -> {PyBool(TRUE), PyBool(FALSE)}
      [] cls = "ListForm" -> ListValues \cup {PyNone}
      [] cls = "DictForm" -> DictValues \cup {PyNone}
      [] cls \in ChoiceClasses ->
            {PyStr(c) : c \in ChoiceTexts \cup {<<"z">>}} \cup {PyNone}
      [] cls = "MultiChoiceForm" -> SelectionValues \cup {PyNone}
      [] cls \in BrowseClasses -> {PyStr(x) : x \in PathTexts} \cup {PyNone}
      [] cls \in ColorClasses -> {PyStr(<<>>), PyStr(White), PyStr(Black), PyNone}

\* what a user types into the entry of each class
EntryTexts(cls) ==
    CASE cls \in {"IntForm", "FloatForm"} ->
            {<<>>, <<"7">>, <<"1", ".", "5">>, <<"-", "3">>, <<"a">>}
      [] cls = "DictForm" ->
            {Repr(term) : term \in Literals} \cup {<<>>, <<"a">>, <<"{">>}
      [] cls = "ListForm" -> ListTexts \cup {<<",">>}
      [] cls \in ColorClasses -> {<<>>, <<"a">>, White}
      [] OTHER -> {<<>>, <<"a">>}

\* an element as its constructor leaves it; the call is remembered with the
\* default it was given
Init ==
    /\ el \in InitialElements
    /\ \E c \in Constructions :
          /\ Construct(c) = Done(el)
          /\ last = Call("init", c.default, "None", PyNone)
    /\ pre = el
    /\ pending = NoPending
    /\ elements = <<>>
    /\ flast = NoCall

\* element.value = v
SetValue(v) ==
    /\ el.cls = "ColorPickerForm" => el.traces < MaxTraces
    /\ LET o == value_set(el, v)
       IN /\ el' = o.el
          /\ last' = Call("set", v, o.exc, PyNone)
          /\ pending' = IF o.exc = "None" THEN [set |-> TRUE, v |-> v] ELSE NoPending
    /\ pre' = el
    /\ UNCHANGED <<elements, flast>>

\* element.value
GetValue ==
    /\ LET o == value_get(el)
       IN last' = Call("get", PyNone, o.exc, o.ret)
    /\ pre' = el
    /\ UNCHANGED <<el, pending, elements, flast>>

AddChoice(c) ==
    /\ el.cls \in ChoiceClasses
    /\ Len(el.choices) < MaxChoices \/ c \in Range(el.choices)
    /\ LET o == add_choice(el, c)
       IN /\ el' = o.el
          /\ last' = Call("add_choice", PyStr(c), o.exc, PyNone)
    /\ pre' = el
    /\ pending' = NoPending
    /\ UNCHANGED <<elements, flast>>

RemoveChoice(c) ==
    /\ el.cls \in ChoiceClasses
    /\ LET o == remove_choice(el, c)
       IN /\ el' = o.el
          /\ last' = Call("remove_choice", PyStr(c), o.exc, PyNone)
    /\ pre' = el
    /\ pending' = NoPending
    /\ UNCHANGED <<elements, flast>>

ClearChoices ==
    /\ el.cls \in ChoiceClasses
    /\ LET o == clear_choices(el)
       IN /\ el' = o.el
          /\ last' = Call("clear_choices", PyNone, o.exc, PyNone)
    /\ pre' = el
    /\ pending' = NoPending
    /\ UNCHANGED <<elements, flast>>

\* the user edits the entry: the entry writes the variable
UserType(text) ==
    /\ el.cls \in EntryClasses
    /\ "Entry" \in Range(el.widgets)
    /\ el' = VarWrite(el, text)
    /\ last' = Call("type", PyStr(text), "None", PyNone)
    /\ pre' = el
    /\ pending' = NoPending
    /\ UNCHANGED <<elements, flast>>

\* the user picks row i of the rendered control: an OptionMenu entry or a
\* Radiobutton writes the variable; a Listbox row toggles and fires _on_select
UserPick(i) ==
    /\ el.cls \in ChoiceClasses \cup {"MultiChoiceForm"}
    /\ Len(el.widgets) > 0
    /\ i \in 1..Len(el.items)
    /\ IF el.cls = "MultiChoiceForm"
       THEN LET o == MultiChoiceForm_on_select(
                        [el EXCEPT !.sel = IF i \in @ THEN @ \ {i} ELSE @ \cup {i}])
            IN /\ el' = o.el
               /\ last' = Call("pick", PyInt(i), o.exc, PyNone)
       ELSE /\ el' = VarWrite(el, el.items[i])
            /\ last' = Call("pick", PyInt(i), "None", PyNone)
    /\ pre' = el
    /\ pending' = NoPending
    /\ UNCHANGED <<elements, flast>>

\* the user toggles the Checkbutton
UserToggle ==
    /\ el.cls = "BoolForm"
    /\ el' = VarWrite(el, IF el.var = <<"1">> THEN <<"0">> ELSE <<"1">>)
    /\ last' = Call("toggle", PyNone, "None", PyNone)
    /\ pre' = el
    /\ pending' = NoPending
    /\ UNCHANGED <<elements, flast>>

\* Browse: the dialog returns file_path
Browse(file_path) ==
    /\ el.cls \in BrowseClasses
    /\ LET o == IF el.cls = "PathForm" THEN PathForm_browse_file(el, file_path)
                ELSE FileForm_browse_file(el, file_path)
       IN /\ el' = o.el
          /\ last' = Call("browse", PyStr(file_path), o.exc, PyNone)
    /\ pre' = el
    /\ pending' = NoPending
    /\ UNCHANGED <<elements, flast>>

\* FileForm.clear / reset
Clear ==
    /\ el.cls \in {"FileForm", "DirectoryForm"}
    /\ LET o == FileForm_clear(el)
       IN /\ el' = o.el
          /\ last' = Call("clear", PyNone, o.exc, PyNone)
    /\ pre' = el
    /\ pending' = NoPending
    /\ UNCHANGED <<elements, flast>>

\* Select Color: the dialog returns color
SelectColor(color) ==
    /\ el.cls \in ColorClasses
    /\ LET o == ColorForm_select_color(el, color)
       IN /\ el' = o.el
          /\ last' = Call("select_color", PyStr(color), o.exc, PyNone)
    /\ pre' = el
    /\ pending' = NoPending
    /\ UNCHANGED <<elements, flast>>

\* element.regen_widgets()
RegenWidgets ==
    /\ el.cls = "ColorPickerForm" => el.traces < MaxTraces
    /\ LET o == regen_widgets(el)
       IN /\ el' = o.el
          /\ last' = Call("regen", PyNone, o.exc, PyNone)
    /\ pre' = el
    /\ pending' = NoPending
    /\ UNCHANGED <<elements, flast>>

Next ==
    \/ \E v \in SetArgs(el.cls) : SetValue(v)
    \/ GetValue
    \/ \E c \in ChoiceTexts : AddChoice(c)
    \/ \E c \in ChoiceTexts : RemoveChoice(c)
    \/ ClearChoices
    \/ \E text \in EntryTexts(el.cls) : UserType(text)
    \/ \E i \in 1..MaxChoices : UserPick(i)
    \/ UserToggle
    \/ \E file_path \in PathTexts : Browse(file_path)
    \/ Clear
    \/ \E color \in {<<>>, White, Black} : SelectColor(color)
    \/ RegenWidgets

Spec == Init /\ [][Next]_vars

-----------------------------------------------------------------------------
(* The Form *)

FormElementClasses ==
    {"FormElement", "StringForm", "IntForm", "FloatForm", "BoolForm", "ListForm",
     "DictForm", "ChoiceForm", "MultiChoiceForm", "FileForm", "DirectoryForm",
     "PathForm", "RadioForm", "ColorForm", "ColorPickerForm"}

\* isinstance(element, FormElement)
IsFormElement(e) == e.cls \in FormElementClasses

Form_add_element(elems, element) == Append(elems, element)

RECURSIVE Form_add_elements(_, _)
Form_add_elements(elems, new) ==
    IF Len(new) = 0 THEN elems
    ELSE Form_add_elements(Form_add_element(elems, new[1]), Tail(new))

RECURSIVE ProcessFrom(_, _, _)
\* the loop of process_form from element i on: an element that is a FormElement
\* with a non-empty name is read; AttributeError is logged and the element
\* skipped, any other failure of the read leaves the loop and the call
ProcessFrom(elems, i, results) ==
    IF i > Len(elems) THEN Ok(PyDict(results))
    ELSE LET element == elems[i]
         IN IF IsFormElement(element) /\ Len(element.name) > 0
            THEN LET o == value_get(element)
                 IN IF o.exc = "None"
                    THEN ProcessFrom(elems, i + 1,
                                     DictSet(results, PyStr(element.name), o.ret))
                    ELSE IF o.exc = "AttributeError"
                         THEN ProcessFrom(elems, i + 1, results)
                    ELSE Raise(o.exc)
            ELSE ProcessFrom(elems, i + 1, results)

Form_process_form(elems) == ProcessFrom(elems, 1, <<>>)

\* not url_file_code is false: neither None nor ""
Truthy(target) == target # PyNone /\ Len(target.v) > 0

\* HTTPConnection(host=...) refuses a port that is no number (InvalidURL)
ValidHost(host) ==
    \A i \in 1..Len(host) :
        host[i] = ":" => IsDigits(SubSeq(host, i + 1, Len(host)))

ResponseBody == PyStr(<<"o", "k">>)

RECURSIVE JsonSerializable(_)
\* json.dumps(v) returns: TypeError for a set, and for a dict key that is
\* neither str, int, float, bool nor None
JsonSerializable(v) ==
    CASE v.t = "list" -> \A i \in 1..Len(v.v) : JsonSerializable(v.v[i])
      [] v.t = "dict" ->
            \A i \in 1..Len(v.v) :
                /\ v.v[i][1].t \in {"str", "int", "float", "bool", "None"}
                /\ JsonSerializable(v.v[i][2])
      [] v.t = "set" -> FALSE
      [] OTHER -> TRUE

\* as HttpCase, but a failure inside the try leaves the connection open
HttpCase_NoClose(verb, data, target, fault) ==
    IF ~Truthy(target) THEN Quiet("ValueError", PyNone)
    ELSE IF ~ValidHost(target.v) THEN Quiet("InvalidURL", PyNone)
    ELSE IF ~JsonSerializable(data)
         THEN [Quiet("RuntimeError", PyNone)
               EXCEPT !.cause = "TypeError", !.created = 1, !.closed = 0]
    ELSE [Quiet(IF fault = "none" THEN "None" ELSE "RuntimeError",
                IF fault = "none" THEN ResponseBody ELSE PyNone)
          EXCEPT !.cause = IF fault = "none" THEN "None" ELSE "OSError",
                 !.created = 1, !.closed = IF fault = "none" THEN 1 ELSE 0,
                 !.verb = verb]

\* one HTTP case of submit: the connection is created outside the try; inside
\* it a failure of json.dumps (nothing is sent) or of request, getresponse or
\* read (fault) is wrapped in RuntimeError; the connection is closed on the
\* way out
HttpCase(verb, data, target, fault) ==
    IF ~Truthy(target) THEN Quiet("ValueError", PyNone)
    ELSE IF ~ValidHost(target.v) THEN Quiet("InvalidURL", PyNone)
    ELSE IF ~JsonSerializable(data)
         THEN [Quiet("RuntimeError", PyNone)
               EXCEPT !.cause = "TypeError", !.created = 1, !.closed = 1]
    ELSE [Quiet(IF fault = "none" THEN "None" ELSE "RuntimeError",
                IF fault = "none" THEN ResponseBody ELSE PyNone)
          EXCEPT !.cause = IF fault = "none" THEN "None" ELSE "OSError",
                 !.created = 1, !.closed = 1, !.verb = verb]

Form_submit_HTTP_POST(data, target, fault) == HttpCase("POST", data, target, fault)
Form_submit_HTTP_PUT(data, target, fault) == HttpCase("PUT", data, target, fault)
Form_submit_HTTP_DELETE(data, target, fault) == HttpCase("DELETE", data, target, fault)
Form_submit_HTTP_PATCH(data, target, fault) == HttpCase("PATCH", data, target, fault)

DataName == <<"d", "a", "t", "a">>
ResultName == <<"r", "e", "s", "u", "l", "t">>

RECURSIVE UpdateFrom(_, _)
\* globals_dict.update(data)
UpdateFrom(g, items) ==
    IF Len(items) = 0 THEN g
    ELSE UpdateFrom(DictSet(g, items[1][1], items[1][2]), Tail(items))

\* name = expr, as source text
Assign(name, expr) == name \o <<" ", "=", " ">> \o expr

CodePass == <<"p", "a", "s", "s">>
CodeDivide == <<"1", "/", "0">>
CodeExit == <<"r", "a", "i", "s", "e", " ", "S", "y", "s", "t", "e", "m", "E", "x", "i", "t">>

\* the names the model's code reads
CodeNames == {DataName, <<"a">>, <<"b">>}

\* exec(code, g): what the code raises and the context it leaves.  The model's
\* programs: pass; result = <name>; 1/0; raise SystemExit; anything else reads
\* a name that is not bound
Exec(code, g) ==
    IF code = CodePass THEN [exc |-> "None", context |-> g]
    ELSE IF \E n \in CodeNames : code = Assign(ResultName, n)
         THEN LET n == CHOOSE x \in CodeNames : code = Assign(ResultName, x)
              IN IF PyStr(n) \in DictKeys(g)
                 THEN [exc |-> "None",
                       context |-> DictSet(g, PyStr(ResultName), DictGet(g, PyStr(n)))]
                 ELSE [exc |-> "NameError", context |-> g]
    ELSE IF code = CodeDivide THEN [exc |-> "ZeroDivisionError", context |-> g]
    ELSE IF code = CodeExit THEN [exc |-> "SystemExit", context |-> g]
    ELSE [exc |-> "NameError", context |-> g]

\* the exceptions that are not Exception: except Exception lets them pass
BaseOnly == {"SystemExit", "KeyboardInterrupt", "GeneratorExit"}

Form_submit_RUN_CODE(data, target) ==
    IF ~Truthy(target) THEN Quiet("ValueError", PyNone)
    ELSE LET globals_dict == UpdateFrom(<<<<PyStr(DataName), data>>>>, data.v)
             x == Exec(target.v, globals_dict)
             ran == [Quiet("None", PyNone) EXCEPT !.execd = TRUE,
                                                  !.context = PyDict(globals_dict)]
         IN IF x.exc = "None"
            THEN [ran EXCEPT !.context = PyDict(x.context),
                             !.ret = IF PyStr(ResultName) \in DictKeys(x.context)
                                     THEN DictGet(x.context, PyStr(ResultName))
                                     ELSE PyNone]
            ELSE IF x.exc \in BaseOnly THEN [ran EXCEPT !.exc = x.exc]
            ELSE [ran EXCEPT !.exc = "RuntimeError", !.cause = x.exc]

Form_submit_LOG(data) == [Quiet("None", PyNone) EXCEPT !.logged = TRUE]

Modes == {"HTTP_POST", "HTTP_PUT", "HTTP_DELETE", "HTTP_PATCH", "RUN_CODE", "LOG"}

HttpModes == {"HTTP_POST", "HTTP_PUT", "HTTP_DELETE", "HTTP_PATCH"}

Form_submit(elems, mode, target, fault) ==
    LET data == Form_process_form(elems)
    IN IF data.exc # "None" THEN Quiet(data.exc, PyNone)
       ELSE IF ~Truthy(target) /\ mode # "LOG" THEN Quiet("ValueError", PyNone)
       ELSE CASE mode = "HTTP_POST" -> Form_submit_HTTP_POST(data.ret, target, fault)
              [] mode = "HTTP_PUT" -> Form_submit_HTTP_PUT(data.ret, target, fault)
              [] mode = "HTTP_DELETE" -> Form_submit_HTTP_DELETE(data.ret, target, fault)
              [] mode = "HTTP_PATCH" -> Form_submit_HTTP_PATCH(data.ret, target, fault)
              [] mode = "RUN_CODE" -> Form_submit_RUN_CODE(data.ret, target)
              [] mode = "LOG" -> Form_submit_LOG(data.ret)

-----------------------------------------------------------------------------
(* A Form given elements, edited by the user, aggregated and submitted *)

Hello == <<"h", "e", "l", "l", "o">>

\* what a program adds to a Form: elements of several classes under names that
\* repeat or are empty, and a bare FormElement (no storage cell)
Candidates ==
    {StringForm_init(n, PyStr(Hello)).el : n \in {<<"a">>, <<>>}}
        \cup {IntForm_init(<<"b">>, PyInt(5)).el, NewElement("FormElement", <<"a">>)}

\* what a program adds to a Form it submits: a string, a number, and a dict under
\* the reserved name of the execution context
SubmitCandidates ==
    {StringForm_init(<<"a">>, PyStr(Hello)).el, IntForm_init(<<"b">>, PyInt(5)).el,
     DictForm_init(DataName, PyNone).el}

\* what a user types into an entry of the Form: a text that is no number, and
\* into a dict entry the display of a set
FormTexts(cls) == IF cls = "DictForm" THEN {<<"{", "1", "}">>} ELSE {<<"z">>}

HostTargets == {PyStr(<<"h">>), PyStr(<<"h", ":", "x">>)}

CodeTargets ==
    {PyStr(CodePass), PyStr(CodeDivide), PyStr(CodeExit),
     PyStr(Assign(ResultName, DataName)), PyStr(Assign(ResultName, <<"a">>))}

NoTargets == {PyNone, PyStr(<<>>)}

\* the targets a caller hands submit in each mode
Targets(mode) ==
    IF mode \in HttpModes THEN HostTargets \cup NoTargets
    ELSE IF mode = "RUN_CODE" THEN CodeTargets \cup NoTargets
    ELSE HostTargets \cup NoTargets

\* where an exchange with a host may fail; nothing is exchanged in the other cases
Faults(mode, target) ==
    IF mode \in HttpModes /\ target \in HostTargets /\ ValidHost(target.v)
    THEN {"none", "request", "getresponse", "read"}
    ELSE {"none"}

InitForm ==
    /\ elements = <<>>
    /\ flast = NoCall
    /\ el = NewElement("FormElement", <<>>)
    /\ pre = el
    /\ last = Call("init", PyNone, "None", PyNone)
    /\ pending = NoPending

AddElement(element) ==
    /\ Len(elements) < MaxElements
    /\ elements' = Form_add_element(elements, element)
    /\ flast' = FormCall("add_element", "None", PyNone, Quiet("None", PyNone))
    /\ UNCHANGED <<el, pre, last, pending>>

AddElements(new) ==
    /\ Len(elements) + Len(new) <= MaxElements
    /\ elements' = Form_add_elements(elements, new)
    /\ flast' = FormCall("add_elements", "None", PyNone, Quiet("None", PyNone))
    /\ UNCHANGED <<el, pre, last, pending>>

\* the user edits the entry of element i
UserTypeAt(i, text) ==
    /\ i \in 1..Len(elements)
    /\ elements[i].cls \in EntryClasses
    /\ elements' = [elements EXCEPT ![i] = VarWrite(@, text)]
    /\ flast' = FormCall("type", "None", PyNone, Quiet("None", PyNone))
    /\ UNCHANGED <<el, pre, last, pending>>

ProcessForm ==
    /\ LET o == Form_process_form(elements)
       IN flast' = FormCall("process_form", "None", PyNone, Quiet(o.exc, o.ret))
    /\ UNCHANGED <<elements, el, pre, last, pending>>

Submit(mode, target, fault) ==
    /\ flast' = FormCall("submit", mode, target,
                         Form_submit(elements, mode, target, fault))
    /\ UNCHANGED <<elements, el, pre, last, pending>>

NextForm ==
    \/ \E element \in Candidates : AddElement(element)
    \/ \E e1, e2 \in Candidates : AddElements(<<e1, e2>>)
    \/ \E i \in 1..Len(elements) :
            \E text \in FormTexts(elements[i].cls) : UserTypeAt(i, text)
    \/ ProcessForm
    \/ \E mode \in Modes : \E target \in Targets(mode) :
            \E fault \in Faults(mode, target) : Submit(mode, target, fault)

SpecForm == InitForm /\ [][NextForm]_vars

\* a Form that is filled, edited and submitted
NextSubmit ==
    \/ \E element \in SubmitCandidates : AddElement(element)
    \/ \E i \in 1..Len(elements) :
            \E text \in FormTexts(elements[i].cls) : UserTypeAt(i, text)
    \/ \E mode \in Modes : \E target \in Targets(mode) :
            \E fault \in Faults(mode, target) : Submit(mode, target, fault)

SpecSubmit == InitForm /\ [][NextSubmit]_vars

-----------------------------------------------------------------------------
(* Properties of one element *)

\* the current value of a Choice or Radio element, as its getter reads it
CurrentValue(e) == value_get(e).ret.v

\* C1: for a Choice or Radio element the current value is a member of choices
\* whenever choices is non-empty, and is the empty string when choices is empty.
C1_ValueInChoices ==
    el.cls \in ChoiceClasses =>
        IF Len(el.choices) > 0 THEN CurrentValue(el) \in Range(el.choices)
        ELSE CurrentValue(el) = <<>>

\* C2: remove_choice(c) of the currently selected value leaves the value at the
\* first remaining choice, or at the empty string if none remains; remove_choice(c)
\* of another member of choices leaves the value as it was.
C2_RemoveChoice ==
    (pre.cls \in ChoiceClasses /\ last.op = "remove_choice" /\ last.exc = "None") =>
        IF CurrentValue(pre) = last.arg.v
        THEN CurrentValue(el) = IF Len(el.choices) > 0 THEN el.choices[1] ELSE <<>>
        ELSE CurrentValue(el) = CurrentValue(pre)

\* the selected choice was removed and the selection moved to another choice
C2_Witness ==
    /\ pre.cls \in ChoiceClasses
    /\ last.op = "remove_choice" /\ last.exc = "None"
    /\ CurrentValue(pre) = last.arg.v
    /\ Len(el.choices) > 0
    /\ CurrentValue(el) = el.choices[1]
    /\ CurrentValue(el) # CurrentValue(pre)

\* C3 as stated: setting the value to anything that is not a member of choices,
\* None included, fails with ValueError and leaves value and choices unchanged.
C3_RejectsEveryNonMember ==
    (pre.cls \in ChoiceClasses /\ last.op = "set"
        /\ ~InChoices(last.arg, pre.choices)) =>
        /\ last.exc = "ValueError"
        /\ CurrentValue(el) = CurrentValue(pre)
        /\ el.choices = pre.choices

\* C3 as amended: a value other than None that is not a member of choices is
\* refused with ValueError, value and choices unchanged; None selects the first
\* choice without failing when choices is non-empty, and is refused with ValueError
\* when choices is empty.
C3_RejectsNonMember ==
    (pre.cls \in ChoiceClasses /\ last.op = "set"
        /\ ~InChoices(last.arg, pre.choices)) =>
        IF last.arg = PyNone /\ Len(pre.choices) > 0
        THEN /\ last.exc = "None"
             /\ CurrentValue(el) = pre.choices[1]
             /\ el.choices = pre.choices
        ELSE /\ last.exc = "ValueError"
             /\ CurrentValue(el) = CurrentValue(pre)
             /\ el.choices = pre.choices

\* a string outside non-empty choices was refused
C3_Witness ==
    /\ pre.cls \in ChoiceClasses /\ last.op = "set"
    /\ last.arg = PyStr(<<"z">>)
    /\ Len(pre.choices) > 0
    /\ last.exc = "ValueError"
    /\ el = pre

\* the declared domain of each variant, as C4 gives it
InDomain(e, v) ==
    CASE e.cls \in {"StringForm", "FileForm", "DirectoryForm", "PathForm"} -> v.t = "str"
      [] e.cls = "IntForm" -> v.t = "int"
      [] e.cls = "FloatForm" -> v.t = "float"
      [] e.cls = "BoolForm" -> v.t = "bool"
      [] e.cls = "ListForm" ->
            v.t = "list" /\ \A i \in 1..Len(v.v) : "," \notin Range(v.v[i].v)
      [] e.cls = "DictForm" -> v.t = "dict"
      [] e.cls \in ChoiceClasses -> InChoices(v, e.choices)
      [] e.cls = "MultiChoiceForm" ->
            v.t = "list" /\ e.hasListbox /\ Range(Strs(v.v)) \subseteq Range(e.choices)
      [] e.cls \in ColorClasses -> v.t = "str" /\ IsColor(v.v)

\* equality of what was set and what was got; a MultiChoice selection is compared
\* as a set of choices
SameValue(e, a, b) ==
    IF e.cls = "MultiChoiceForm"
    THEN a.t = b.t /\ Range(a.v) = Range(b.v)
    ELSE PyEq(a, b)

\* C4 as stated: for every variant and every v in its domain (for List: every
\* sequence of strings none of which contains ','), set(v) then get() returns v.
C4_RoundTrip ==
    (last.op = "get" /\ pending.set /\ InDomain(el, pending.v)) =>
        /\ last.exc = "None"
        /\ SameValue(el, last.ret, pending.v)

\* C4 as amended: the same, with the List domain further without [""], the
\* sequence holding just the empty string.
C4_RoundTripAmended ==
    (last.op = "get" /\ pending.set /\ InDomain(el, pending.v)
        /\ pending.v # PyList(<<PyStr(<<>>)>>)) =>
        /\ last.exc = "None"
        /\ SameValue(el, last.ret, pending.v)

\* a List was set to two strings and read back
C4_Witness ==
    /\ el.cls = "ListForm"
    /\ last.op = "get" /\ pending.set
    /\ pending.v = PyList(<<PyStr(<<"b">>), PyStr(<<>>)>>)
    /\ last.ret = pending.v

\* the text of a Dict element is the literal form of a mapping
IsMappingText(s) == \E d \in DictValues : Repr(d) = s

\* C5: reading a Dict element never fails and returns a mapping: the parsed
\* mapping when the stored text is a mapping literal, else the empty mapping.
C5_DictGetIsMapping ==
    (el.cls = "DictForm" /\ last.op = "get") =>
        /\ last.exc = "None"
        /\ last.ret.t = "dict"
        /\ IF IsMappingText(el.var)
           THEN Repr(last.ret) = el.var
           ELSE last.ret = PyDict(<<>>)

\* C6 as stated: setting a Color element to None or to the empty string leaves it
\* holding white.
C6_EmptySetsWhite ==
    (pre.cls \in ColorClasses /\ last.op = "set"
        /\ last.arg \in {PyNone, PyStr(<<>>)}) =>
        CurrentValue(el) = White

\* C6 as amended: setting a Color element to None leaves it holding white; the
\* empty string is stored as it is.
C6_NoneSetsWhite ==
    (pre.cls \in ColorClasses /\ last.op = "set"
        /\ last.arg \in {PyNone, PyStr(<<>>)}) =>
        CurrentValue(el) = IF last.arg = PyNone THEN White ELSE <<>>

\* a Color element holding another colour was set to None
C6_Witness ==
    /\ pre.cls \in ColorClasses /\ last.op = "set"
    /\ last.arg = PyNone
    /\ CurrentValue(pre) = Black
    /\ CurrentValue(el) = White

\* the strings of a list argument, none for None
ArgSet(v) == IF v = PyNone THEN {} ELSE Range(Strs(v.v))

\* C7: for a rendered MultiChoice element set(S) never fails, and get() then
\* returns exactly the members of choices that occur in S.
C7_MultiChoiceSet ==
    (pre.cls = "MultiChoiceForm" /\ pre.hasListbox /\ last.op = "set") =>
        /\ last.exc = "None"
        /\ value_get(el).exc = "None"
        /\ Range(Strs(value_get(el).ret.v)) = Range(el.choices) \cap ArgSet(last.arg)

\* a selection was replaced by one known and one unknown choice
C7_Witness ==
    /\ pre.cls = "MultiChoiceForm" /\ pre.hasListbox /\ last.op = "set"
    /\ value_get(pre).ret = PyList(<<PyStr(<<"b">>)>>)
    /\ last.arg = PyList(<<PyStr(<<"a">>), PyStr(<<"z">>)>>)
    /\ value_get(el).ret = PyList(<<PyStr(<<"a">>)>>)

-----------------------------------------------------------------------------
(* Properties of the Form *)

RECURSIVE FirstOccurrences(_)
\* a sequence without the repetitions of what stood earlier in it
FirstOccurrences(q) ==
    IF Len(q) = 0 THEN <<>>
    ELSE LET front == FirstOccurrences(SubSeq(q, 1, Len(q) - 1))
         IN IF q[Len(q)] \in Range(front) THEN front ELSE Append(front, q[Len(q)])

Names(elems) == [i \in 1..Len(elems) |-> PyStr(elems[i].name)]

\* the last element added under a name
LastNamed(elems, k) ==
    elems[CHOOSE i \in 1..Len(elems) :
            /\ PyStr(elems[i].name) = k
            /\ \A j \in (i + 1)..Len(elems) : PyStr(elems[j].name) # k]

Keys(d) == [i \in 1..Len(d) |-> d[i][1]]

\* the mapping d lists, in order of first insertion, the names of elems, each with
\* the current value of the last element of that name
MapsElements(d, elems) ==
    /\ d.t = "dict"
    /\ Keys(d.v) = FirstOccurrences(Names(elems))
    /\ \A k \in DictKeys(d.v) :
          LET o == value_get(LastNamed(elems, k))
          IN o.exc = "None" /\ DictGet(d.v, k) = o.ret

IsRead(e) == IsFormElement(e) /\ Len(e.name) > 0 /\ value_get(e).exc = "None"

C9_ReadFailuresSkipped ==
    flast.op = "process_form" =>
        /\ flast.exc = "None"
        /\ \A i \in 1..Len(elements) :
              IsRead(elements[i]) => PyStr(elements[i].name) \in DictKeys(flast.ret.v)

\* C10: submit(LOG) completes without raising, whatever the Form holds and whether
\* or not a target is given, and performs no HTTP connection and no code execution.
C10_SubmitLogCompletes ==
    (flast.op = "submit" /\ flast.mode = "LOG") =>
        /\ flast.exc = "None"
        /\ flast.created = 0
        /\ ~flast.execd

\* C11: in every mode other than LOG, submit with an absent or empty target
\* raises ValueError, having opened no connection and executed no code.
C11_NoTargetIsValueError ==
    (flast.op = "submit" /\ flast.mode # "LOG" /\ ~Truthy(flast.target)) =>
        /\ flast.exc = "ValueError"
        /\ flast.created = 0
        /\ ~flast.execd

\* C12: in every HTTP submission, every connection submit opened is closed when
\* submit returns or raises, whether the exchange succeeded, serializing or
\* sending failed, or reading the response failed.
C12_ConnectionsClosed ==
    (flast.op = "submit" /\ flast.mode \in HttpModes) =>
        flast.closed = flast.created

\* the mapping could not be serialized: a connection was opened, and closed
C12_Witness ==
    /\ flast.op = "submit" /\ flast.mode \in HttpModes
    /\ ~JsonSerializable(Form_process_form(elements).ret)
    /\ flast.exc = "RuntimeError" /\ flast.cause = "TypeError"
    /\ flast.created = 1 /\ flast.closed = 1

\* C13: once the mapping is collected and a non-empty target accepted, every
\* failure of the submission reaches the caller as RuntimeError chaining the
\* underlying failure, never as the underlying failure itself.
C13_FailuresWrapped ==
    (/\ flast.op = "submit"
     /\ Form_process_form(elements).exc = "None"
     /\ Truthy(flast.target)
     /\ flast.exc # "None") =>
        flast.exc = "RuntimeError" /\ flast.cause # "None"

\* C14: in submit(RUN_CODE), the context the code runs in binds `data` to the
\* whole mapping and every element name to that element's value.  (The model's
\* programs bind nothing but `result`, so apart from `result` the context left
\* behind is the context the code saw.)
C14_ContextBindsDataAndNames ==
    (flast.op = "submit" /\ flast.mode = "RUN_CODE" /\ flast.execd) =>
        LET data == Form_process_form(elements).ret
            g == flast.context.v
        IN /\ PyStr(DataName) \in DictKeys(g)
           /\ PyEq(DictGet(g, PyStr(DataName)), data)
           /\ \A k \in DictKeys(data.v) \ {PyStr(ResultName)} :
                 k \in DictKeys(g) /\ DictGet(g, k) = DictGet(data.v, k)

-----------------------------------------------------------------------------
(* Rendering and construction of one element *)

\* C15: rendering is idempotent for every variant: once regen_widgets has been
\* called, another call succeeds and leaves what get() returns (for MultiChoice
\* the selection) and the number of write observers on the variable as they were.
C15_RegenIdempotent ==
    (last.op = "regen" /\ last.exc = "None") =>
        LET again == regen_widgets(el)
        IN /\ again.exc = "None"
           /\ value_get(again.el) = value_get(el)
           /\ again.el.traces = el.traces

\* C16: immediately after construction with a default in the variant's domain,
\* get() returns that default (a MultiChoice reports the default as its
\* selection), and a Choice or Radio constructed with a default outside choices
\* reports the first choice.
C16_DefaultIsInitialValue ==
    last.op = "init" =>
        LET o == value_get(el)
        IN /\ (last.arg # PyNone /\ InDomain(el, last.arg)) =>
                 o.exc = "None" /\ SameValue(el, o.ret, last.arg)
           /\ (el.cls \in ChoiceClasses /\ ~InChoices(last.arg, el.choices)) =>
                 o = Ok(PyStr(el.choices[1]))

=============================================================================
